---- MODULE Spec2Model ----
(***************************************************************************)
(* Model of the EGTS Transport Layer header encoder (egts_pkg.go).         *)
(*                                                                         *)
(* State: one EgtsPkgHeader value `h` owned by the application, and two    *)
(* invocations of EgtsPkgHeader.ToBytes on it.  ToBytes has a pointer      *)
(* receiver, so both invocations read and write the same header.  Each     *)
(* invocation is split into the steps at which it touches the header or    *)
(* may return.                                                             *)
(***************************************************************************)
EXTENDS Integers, Sequences, FiniteSets, TLC

VARIABLES h, calls, edits, incs

vars == <<h, calls, edits, incs>>

(***************************************************************************)
(* Bounds of the model.                                                    *)
(***************************************************************************)
MaxEdits == 1        \* field assignments the application makes to h
MaxIncs == 1         \* increments of the packet counter h.PID

Calls == {"c1", "c2"}

(***************************************************************************)
(* Program constants.                                                      *)
(***************************************************************************)
StubHCS == 202       \* h.HCS = 202 in CalcCRC8
CRC8Poly == 49       \* 0x31, x^8 + x^5 + x^4 + 1
CRC8Init == 255      \* 0xFF

NoErr == "nil"
InvalidField == "InvalidField"

(***************************************************************************)
(* Integer widths of the Go field types.                                   *)
(***************************************************************************)
Uint16NoWrap(v) == v

Uint16(v) == v % 65536

(***************************************************************************)
(* type EgtsPkgHeader struct: every field is an unsigned integer of the    *)
(* declared width (byte/uint8: 0..255, uint16: 0..65535).                  *)
(***************************************************************************)
ByteFields == {"PRV", "SKID", "PRF", "RTE", "ENA", "CMP", "PR", "HL", "HE",
               "PT", "TTL", "HCS"}
WordFields == {"FDL", "PID", "PRA", "RCA"}
Fields == ByteFields \cup WordFields

EgtsPkgHeader ==
    [PRV : 0..255, SKID : 0..255, PRF : 0..255, RTE : 0..255, ENA : 0..255,
     CMP : 0..255, PR : 0..255, HL : 0..255, HE : 0..255, FDL : 0..65535,
     PID : 0..65535, PT : 0..255, PRA : 0..65535, RCA : 0..65535,
     TTL : 0..255, HCS : 0..255]

\* The header without its checksum field.
NonHCS(hd) == [f \in Fields \ {"HCS"} |-> hd[f]]

(***************************************************************************)
(* fmt.Sprintf verb %0wb applied to an unsigned integer: the binary digits *)
(* of v, most significant first, left-padded with zeros to AT LEAST w      *)
(* digits.  A value that needs more than w digits is printed in full.      *)
(***************************************************************************)
RECURSIVE Binary(_)
Binary(v) == IF v < 2 THEN <<v>> ELSE Append(Binary(v \div 2), v % 2)

RECURSIVE ZeroPad(_, _)
ZeroPad(s, w) == IF Len(s) < w THEN ZeroPad(<<0>> \o s, w) ELSE s

FormatBitsMasked(v, w) == ZeroPad(Binary(v % (2 ^ w)), w)

FormatBits(v, w) == ZeroPad(Binary(v), w)

\* A packing that puts the priority first.
SprintfPRFirst(hd) ==
    FormatBits(hd.PR, 2) \o FormatBits(hd.RTE, 1) \o FormatBits(hd.ENA, 2)
        \o FormatBits(hd.CMP, 1) \o FormatBits(hd.PRF, 2)

\* fmt.Sprintf("%02b%01b%02b%01b%02b", h.PRF, h.RTE, h.ENA, h.CMP, h.PR)
Sprintf(hd) ==
    FormatBits(hd.PRF, 2) \o FormatBits(hd.RTE, 1) \o FormatBits(hd.ENA, 2)
        \o FormatBits(hd.CMP, 1) \o FormatBits(hd.PR, 2)

(***************************************************************************)
(* bitsToByte is called by ToBytes but defined outside egts_pkg.go.  It is *)
(* modelled from the bit-field packing contract: the digit string must be  *)
(* exactly 8 bits wide, and is read most significant bit first; a string   *)
(* of any other width is the overflow of some field and is an error.       *)
(***************************************************************************)
RECURSIVE ParseBits(_)
ParseBits(s) ==
    IF s = <<>> THEN 0
    ELSE 2 * ParseBits(SubSeq(s, 1, Len(s) - 1)) + s[Len(s)]

bitsToByte(s) ==
    IF Len(s) = 8 THEN [val |-> ParseBits(s), err |-> NoErr]
    ELSE [val |-> 0, err |-> InvalidField]

(***************************************************************************)
(* binary.Write(buf, binary.LittleEndian, v) for a byte and for a uint16.  *)
(***************************************************************************)
BE16(v) == <<(v \div 256) % 256, v % 256>>

LE16(v) == <<v % 256, (v \div 256) % 256>>

\* HL, HE, FDL, PID, PT (lines 111-129)
FixedBlock(hd) == <<hd.HL, hd.HE>> \o LE16(hd.FDL) \o LE16(hd.PID) \o <<hd.PT>>

\* A routing block that is written only for RTE = 1.
RoutingBlockIfRTE(hd) ==
    IF hd.RTE = 1 THEN LE16(hd.PRA) \o LE16(hd.RCA) \o <<hd.TTL>> ELSE <<>>

\* PRA, RCA, TTL (lines 131-141): written whatever RTE is.
RoutingBlock(hd) == LE16(hd.PRA) \o LE16(hd.RCA) \o <<hd.TTL>>

(***************************************************************************)
(* Header values the application constructs.                               *)
(***************************************************************************)
BasePlain ==
    [PRV |-> 1, SKID |-> 0, PRF |-> 0, RTE |-> 0, ENA |-> 0, CMP |-> 0,
     PR |-> 0, HL |-> 11, HE |-> 0, FDL |-> 3, PID |-> 1, PT |-> 1,
     PRA |-> 0, RCA |-> 0, TTL |-> 0, HCS |-> 0]

BaseRouted ==
    [BasePlain EXCEPT !.RTE = 1, !.HL = 14, !.PRA = 100, !.RCA = 200,
                      !.TTL = 5, !.PID = 65535]

\* A bare acknowledgement: a response packet without payload.
BaseAck == [BasePlain EXCEPT !.PT = 0, !.FDL = 0, !.PR = 3, !.PID = 256]

BaseHeaders == {BasePlain, BaseRouted, BaseAck}

ByteVals == {0, 11, 255}
WordVals == {0, 255, 256, 65535}

FieldVals(f) ==
    CASE f \in {"PRF", "ENA", "PR"} -> 0..4
      [] f \in {"RTE", "CMP"} -> 0..2
      [] f \in WordFields -> WordVals
      [] OTHER -> ByteVals

\* Every combination of bit-field values, each up to one past its width.
FlagHeaders ==
    {[b EXCEPT !.PRF = t[1], !.RTE = t[2], !.ENA = t[3], !.CMP = t[4],
               !.PR = t[5]] :
        b \in {BasePlain},
        t \in (0..4) \X (0..2) \X (0..4) \X (0..2) \X (0..4)}

BitFieldsFit(hd) ==
    /\ hd.PRF <= 3
    /\ hd.RTE <= 1
    /\ hd.ENA <= 3
    /\ hd.CMP <= 1
    /\ hd.PR <= 3

(***************************************************************************)
(* An invocation of ToBytes: its position, the header value it was called  *)
(* on, and its locals buf, result and err.                                 *)
(***************************************************************************)
IdleCall ==
    [pc |-> "idle", arg |-> BasePlain, buf |-> <<>>, result |-> <<>>,
     err |-> NoErr]

Running(c) == calls[c].pc \notin {"idle", "done"}

NoCallRunning == \A c \in Calls : ~Running(c)

Init ==
    /\ h \in BaseHeaders
    /\ calls = [c \in Calls |-> IdleCall]
    /\ edits = 0
    /\ incs = 0

InitFlags ==
    /\ h \in FlagHeaders
    /\ calls = [c \in Calls |-> IdleCall]
    /\ edits = 0
    /\ incs = 0

(***************************************************************************)
(* The application assigns one exported field of the header between calls. *)
(***************************************************************************)
SetField(f, v) ==
    /\ NoCallRunning
    /\ edits < MaxEdits
    /\ v # h[f]
    /\ h' = [h EXCEPT ![f] = v]
    /\ edits' = edits + 1
    /\ UNCHANGED <<calls, incs>>

(***************************************************************************)
(* The sender advances the packet counter: PID is a uint16, so h.PID++     *)
(* is taken modulo 2^16.                                                   *)
(***************************************************************************)
IncPID ==
    /\ NoCallRunning
    /\ incs < MaxIncs
    /\ h' = [h EXCEPT !.PID = Uint16(h.PID + 1)]
    /\ incs' = incs + 1
    /\ UNCHANGED <<calls, edits>>

(***************************************************************************)
(* ToBytes, lines 88-98: result := []byte{}, buf := new(bytes.Buffer),     *)
(* write PRV and SKID.                                                     *)
(***************************************************************************)
ToBytesBegin(c) ==
    /\ calls[c].pc = "idle"
    /\ calls' = [calls EXCEPT ![c] =
                    [pc |-> "flags", arg |-> h, buf |-> <<h.PRV, h.SKID>>,
                     result |-> <<>>, err |-> NoErr]]
    /\ UNCHANGED <<h, edits, incs>>

(***************************************************************************)
(* ToBytes, lines 100-109: format the flags, convert them to a byte; on    *)
(* error return the empty result and the error, else write the byte.       *)
(***************************************************************************)
ToBytesFlags(c) ==
    /\ calls[c].pc = "flags"
    /\ LET flagsByte == Sprintf(h)
           flagByte == bitsToByte(flagsByte)
       IN  IF flagByte.err # NoErr
           THEN calls' = [calls EXCEPT ![c].pc = "done",
                                       ![c].err = flagByte.err]
           ELSE calls' = [calls EXCEPT ![c].pc = "fixed",
                                       ![c].buf = Append(@, flagByte.val)]
    /\ UNCHANGED <<h, edits, incs>>

\* ToBytes, lines 111-129: write HL, HE, FDL, PID, PT.
ToBytesFixed(c) ==
    /\ calls[c].pc = "fixed"
    /\ calls' = [calls EXCEPT ![c].pc = "routing",
                              ![c].buf = @ \o FixedBlock(h)]
    /\ UNCHANGED <<h, edits, incs>>

\* ToBytes, lines 131-141: write PRA, RCA, TTL.
ToBytesRouting(c) ==
    /\ calls[c].pc = "routing"
    /\ calls' = [calls EXCEPT ![c].pc = "crc",
                              ![c].buf = @ \o RoutingBlock(h)]
    /\ UNCHANGED <<h, edits, incs>>

(***************************************************************************)
(* CalcCRC8, lines 155-160, called at line 143: h.HCS = 202; return nil.   *)
(* The store goes to the shared header.  Two invocations on one header     *)
(* race on h.HCS; each reads it (line 147) after its own store of 202, and *)
(* the only other store is the other invocation's 202, so every outcome of *)
(* the race reads 202.                                                     *)
(***************************************************************************)
CalcCRC8(c) ==
    /\ calls[c].pc = "crc"
    /\ h' = [h EXCEPT !.HCS = StubHCS]
    /\ calls' = [calls EXCEPT ![c].pc = "hcs"]
    /\ UNCHANGED <<edits, incs>>

\* ToBytes, lines 147-152: write h.HCS; result = buf.Bytes(); return.
ToBytesHCS(c) ==
    /\ calls[c].pc = "hcs"
    /\ calls' = [calls EXCEPT ![c].pc = "done",
                              ![c].buf = Append(@, h.HCS),
                              ![c].result = Append(calls[c].buf, h.HCS)]
    /\ UNCHANGED <<h, edits, incs>>

ToBytes(c) ==
    \/ ToBytesBegin(c)
    \/ ToBytesFlags(c)
    \/ ToBytesFixed(c)
    \/ ToBytesRouting(c)
    \/ CalcCRC8(c)
    \/ ToBytesHCS(c)

NextCalls == \E c \in Calls : ToBytes(c)

Next ==
    \/ \E f \in Fields : \E v \in FieldVals(f) : SetField(f, v)
    \/ IncPID
    \/ \E c \in Calls : ToBytes(c)

Spec == Init /\ [][Next]_vars

SpecFlags == InitFlags /\ [][NextCalls]_vars

(***************************************************************************)
(* Header CRC-8 of the protocol (polynomial 0x31, initial value 0xFF, no   *)
(* reflection, no final xor), which the HCS comment of the header refers   *)
(* to.  egts_pkg.go does not implement it.                                 *)
(***************************************************************************)
RECURSIVE XorBits(_, _, _)
XorBits(a, b, n) ==
    IF n = 0 THEN 0
    ELSE ((a + b) % 2) + 2 * XorBits(a \div 2, b \div 2, n - 1)

Xor8(a, b) == XorBits(a, b, 8)

RECURSIVE CRC8Shift(_, _)
CRC8Shift(crc, n) ==
    IF n = 0 THEN crc
    ELSE CRC8Shift(IF crc >= 128 THEN Xor8((crc * 2) % 256, CRC8Poly)
                                 ELSE (crc * 2) % 256, n - 1)

\* The CRC register after one whole byte has been shifted in.
CRC8Table == [b \in 0..255 |-> CRC8Shift(b, 8)]

RECURSIVE CRC8From(_, _)
CRC8From(crc, s) ==
    IF s = <<>> THEN crc
    ELSE CRC8From(CRC8Table[Xor8(crc, Head(s))], Tail(s))

CRC8(s) == CRC8From(CRC8Init, s)

(***************************************************************************)
(* Header decoding as the codec contract describes it (egts_pkg.go has no  *)
(* decoder): read HL to find the header span, check the version, recompute *)
(* CRC-8 over the span without its last byte and compare it with the last  *)
(* byte, then unpack the fields; the routing block is read iff RTE = 1.    *)
(***************************************************************************)
UnpackFlags(b) ==
    [PRF |-> b \div 64, RTE |-> (b \div 32) % 2, ENA |-> (b \div 8) % 4,
     CMP |-> (b \div 4) % 2, PR |-> b % 4]

DecodeFail(e) == [err |-> e, hdr |-> <<>>, consumed |-> 0]

Decode(b) ==
    IF Len(b) < 4 \/ Len(b) < b[4] THEN DecodeFail("Truncated")
    ELSE IF b[1] # 1 THEN DecodeFail("UnsupportedVersion")
    ELSE IF b[4] < 11 THEN DecodeFail("InvalidField")
    ELSE IF CRC8(SubSeq(b, 1, b[4] - 1)) # b[b[4]]
         THEN DecodeFail("ChecksumMismatch")
    ELSE IF UnpackFlags(b[3]).RTE = 1 /\ b[4] < 16 THEN DecodeFail("Truncated")
    ELSE [err |-> NoErr,
          consumed |-> b[4],
          hdr |-> LET fl == UnpackFlags(b[3])
                      routed == fl.RTE = 1
                  IN  [PRV |-> b[1], SKID |-> b[2], PRF |-> fl.PRF,
                       RTE |-> fl.RTE, ENA |-> fl.ENA, CMP |-> fl.CMP,
                       PR |-> fl.PR, HL |-> b[4], HE |-> b[5],
                       FDL |-> b[6] + 256 * b[7], PID |-> b[8] + 256 * b[9],
                       PT |-> b[10],
                       PRA |-> IF routed THEN b[11] + 256 * b[12] ELSE 0,
                       RCA |-> IF routed THEN b[13] + 256 * b[14] ELSE 0,
                       TTL |-> IF routed THEN b[15] ELSE 0,
                       HCS |-> b[b[4]]]]

(***************************************************************************)
(* Properties.                                                             *)
(***************************************************************************)
Done(c) == calls[c].pc = "done"

Encoded(c) == Done(c) /\ calls[c].err = NoErr

\* The flags byte with PRF in the two highest bits and PR in the two lowest.
PackedFlags(hd) == hd.PRF * 64 + hd.RTE * 32 + hd.ENA * 8 + hd.CMP * 4 + hd.PR

\* The header length the protocol prescribes for a value of RTE.
ImpliedHL(hd) == IF hd.RTE = 1 THEN 14 ELSE 11

\* C1: for every header whose bit-fields fit their widths, the byte written at
\* offset 2 is PRF*64 + RTE*32 + ENA*8 + CMP*4 + PR (PRF most significant).
FlagsByteLayout ==
    \A c \in Calls :
        (Len(calls[c].buf) >= 3 /\ BitFieldsFit(calls[c].arg))
            => calls[c].buf[3] = PackedFlags(calls[c].arg)

FlagsByteLayoutWitness ==
    \E c \in Calls :
        /\ Encoded(c)
        /\ calls[c].arg.PRF = 2 /\ calls[c].arg.RTE = 1 /\ calls[c].arg.ENA = 1
        /\ calls[c].arg.CMP = 0 /\ calls[c].arg.PR = 3
        /\ calls[c].result[3] = 171

\* C2: the routing block PRA, RCA, TTL is written only when RTE = 1: with RTE = 0
\* the encoded header is 11 bytes (PRV..PT, then HCS at offset 10); with RTE = 1
\* PRA, RCA, TTL occupy offsets 10..14 and HCS is at offset 15.
RoutingBlockOnlyIfRTE ==
    \A c \in Calls :
        Encoded(c) =>
            /\ calls[c].arg.RTE = 0 => Len(calls[c].result) = 11
            /\ calls[c].arg.RTE = 1 =>
                  /\ Len(calls[c].result) = 16
                  /\ SubSeq(calls[c].result, 11, 15) =
                        LE16(calls[c].arg.PRA) \o LE16(calls[c].arg.RCA)
                            \o <<calls[c].arg.TTL>>

\* C3: the HCS byte that header encoding appends is the CRC-8 of every header
\* byte written before it.
HCSIsCRC8 ==
    \A c \in Calls :
        Encoded(c) =>
            LET r == calls[c].result
            IN  r[Len(r)] = CRC8(SubSeq(r, 1, Len(r) - 1))

HLMatchesLength ==
    \A c \in Calls :
        Done(c) =>
            /\ calls[c].arg.HL # ImpliedHL(calls[c].arg)
                  => calls[c].err = InvalidField
            /\ calls[c].err = NoErr
                  => calls[c].result[4] = Len(calls[c].result)

\* C6: the fixed part is written at fixed offsets: PRV 0, SKID 1, one flags byte
\* at 2, HL 3, HE 4, FDL 5..6 and PID 7..8 low byte first, PT 9; bytes unchanged,
\* a 16-bit field v as (v mod 256, v div 256).
FixedPartLayout ==
    \A c \in Calls :
        LET b == calls[c].buf
            a == calls[c].arg
        IN  /\ Len(b) >= 2 => b[1] = a.PRV /\ b[2] = a.SKID
            /\ Len(b) >= 3 => b[3] \in 0..255
            /\ Len(b) >= 10 =>
                  /\ b[4] = a.HL
                  /\ b[5] = a.HE
                  /\ b[6] = a.FDL % 256 /\ b[7] = a.FDL \div 256
                  /\ b[8] = a.PID % 256 /\ b[9] = a.PID \div 256
                  /\ b[10] = a.PT
            /\ calls[c].pc # "idle" => Len(b) >= 2
            /\ calls[c].pc \in {"routing", "crc", "hcs"} => Len(b) >= 10
            /\ Encoded(c) => calls[c].result = b /\ Len(b) >= 10

FixedPartLayoutWitness ==
    \E c \in Calls :
        /\ Encoded(c)
        /\ calls[c].arg.FDL = 256
        /\ calls[c].arg.PID = 1
        /\ SubSeq(calls[c].result, 1, 10) = <<1, 0, 0, 11, 0, 0, 1, 1, 0, 1>>

\* C7: PID is a 16-bit cyclic counter: the bytes encoded at offsets 7..8
\* reconstruct the PID the call was given, incrementing 65535 yields 0, and the
\* stored PID always stays within 0..65535.
PIDCyclic ==
    [][/\ h'.PID \in 0..65535
       /\ incs' = incs + 1 =>
             h'.PID = IF h.PID = 65535 THEN 0 ELSE h.PID + 1
       /\ \A c \in Calls :
             Len(calls'[c].buf) >= 10 =>
                 calls'[c].buf[8] + 256 * calls'[c].buf[9] = calls'[c].arg.PID
      ]_vars

PIDCyclicWitness ==
    /\ incs = 1
    /\ h.PID = 0
    /\ \E c \in Calls :
          /\ Encoded(c)
          /\ calls[c].arg.PID = 65535
          /\ calls[c].result[8] = 255 /\ calls[c].result[9] = 255

\* C8: header encoding is a pure function of its input: no step of ToBytes
\* changes any field of the header it is given, HCS included.
ToBytesLeavesHeader == [][NextCalls => h' = h]_vars

\* C9: round-trip law: decoding the encoding of a valid header reproduces the
\* header; stated for packets without payload (FDL = 0), whose encoding is the
\* encoded header alone.
RoundTrip ==
    \A c \in Calls :
        (/\ Encoded(c)
         /\ calls[c].arg.PRV = 1
         /\ calls[c].arg.HL = ImpliedHL(calls[c].arg)
         /\ calls[c].arg.FDL = 0)
            => LET d == Decode(calls[c].result)
               IN  /\ d.err = NoErr
                   /\ d.consumed = Len(calls[c].result)
                   /\ NonHCS(d.hdr) = NonHCS(calls[c].arg)

TypeOK ==
    /\ h \in EgtsPkgHeader
    /\ edits \in 0..MaxEdits
    /\ incs \in 0..MaxIncs
    /\ \A c \in Calls : calls[c].pc \in
          {"idle", "flags", "fixed", "routing", "crc", "hcs", "done"}
====
